---- MODULE Spec2Model ----
(***************************************************************************)
(* Model of the file-explorer backend (FastAPI): the per-user storage      *)
(* root, the path guard, the session token and the five file operations.   *)
(*                                                                         *)
(* Text is modelled character by character: a Python str is a sequence of  *)
(* one-character strings, so that replace(), strip(), startswith(),        *)
(* rsplit(), lower() and os.path.* are computed as the interpreter         *)
(* computes them.  The filesystem is a function from canonical absolute    *)
(* paths (sequences of components) to nodes.  Time is counted in whole     *)
(* seconds, the unit of the token's exp claim and of the upload timestamp. *)
(***************************************************************************)
EXTENDS Integers, Sequences, FiniteSets, TLC

VARIABLES fs, now, tok, last

vars == <<fs, now, tok, last>>

(***************************************************************************)
(* Bounds of the model.                                                    *)
(***************************************************************************)
\* longest user-supplied path string given to validate_path in SpecPath
MaxLen == 7
\* longest identity id given to get_user_directory in SpecRoot
MaxIdLen == 3
\* last second of the clock in Spec; SpecAuth reads the clock up to a
\* second later, on the first day and on the next
MaxNow == 1

(***************************************************************************)
(* Python str operations on sequences of characters.                       *)
(***************************************************************************)
SLASH == "/"
DOT == "."

\* the characters of the model's text, in code point order
Digits == <<"0", "1", "2", "3", "4", "5", "6", "7", "8", "9">>
UpperCase ==
  <<"A", "B", "C", "D", "E", "F", "G", "H", "I", "J", "K", "L", "M",
    "N", "O", "P", "Q", "R", "S", "T", "U", "V", "W", "X", "Y", "Z">>
LowerCase ==
  <<"a", "b", "c", "d", "e", "f", "g", "h", "i", "j", "k", "l", "m",
    "n", "o", "p", "q", "r", "s", "t", "u", "v", "w", "x", "y", "z">>
CodePoints == <<".", "/">> \o Digits \o UpperCase \o <<"_">> \o LowerCase

\* ord(c), up to an order-preserving renumbering
Ord(c) == CHOOSE i \in 1..Len(CodePoints) : CodePoints[i] = c

\* str.lower() of one character
LowerChar(c) ==
  IF \E i \in 1..Len(UpperCase) : UpperCase[i] = c
  THEN LowerCase[CHOOSE i \in 1..Len(UpperCase) : UpperCase[i] = c]
  ELSE c

Lower(s) == [i \in 1..Len(s) |-> LowerChar(s[i])]

\* s < t for two str (lexicographic on code points)
RECURSIVE StrLess(_, _)
StrLess(s, t) ==
  IF t = <<>> THEN FALSE
  ELSE IF s = <<>> THEN TRUE
  ELSE IF Ord(Head(s)) # Ord(Head(t)) THEN Ord(Head(s)) < Ord(Head(t))
  ELSE StrLess(Tail(s), Tail(t))

StrLeq(s, t) == s = t \/ StrLess(s, t)

Startswith(s, p) == Len(p) <= Len(s) /\ SubSeq(s, 1, Len(p)) = p

Endswith(s, p) ==
  Len(p) <= Len(s) /\ SubSeq(s, Len(s) - Len(p) + 1, Len(s)) = p

\* s.replace(old, new): the non-overlapping occurrences, left to right
RECURSIVE Replace(_, _, _)
Replace(s, old, new) ==
  IF s = <<>> THEN <<>>
  ELSE IF Startswith(s, old)
       THEN new \o Replace(SubSeq(s, Len(old) + 1, Len(s)), old, new)
       ELSE <<Head(s)>> \o Replace(Tail(s), old, new)

RECURSIVE LStrip(_, _)
LStrip(s, c) ==
  IF s # <<>> /\ Head(s) = c THEN LStrip(Tail(s), c) ELSE s

RECURSIVE RStrip(_, _)
RStrip(s, c) ==
  IF s # <<>> /\ s[Len(s)] = c THEN RStrip(SubSeq(s, 1, Len(s) - 1), c) ELSE s

\* s.strip(c)
Strip(s, c) == RStrip(LStrip(s, c), c)

\* s.rfind(c) + 1: the position after the last c, 0 when there is none
RFind1(s, c) ==
  LET hits == {i \in 1..Len(s) : s[i] = c}
  IN IF hits = {} THEN 0 ELSE CHOOSE i \in hits : \A j \in hits : j <= i

\* s.split('/')
RECURSIVE SplitSlash(_)
SplitSlash(s) ==
  LET i == RFind1(s, SLASH)
  IN IF i = 0 THEN <<s>>
     ELSE Append(SplitSlash(SubSeq(s, 1, i - 1)), SubSeq(s, i + 1, Len(s)))

\* '/'.join(comps)
RECURSIVE JoinSlash(_)
JoinSlash(comps) ==
  IF comps = <<>> THEN <<>>
  ELSE IF Len(comps) = 1 THEN comps[1]
  ELSE comps[1] \o <<SLASH>> \o JoinSlash(Tail(comps))

\* str(n) for a non-negative int
RECURSIVE Str(_)
Str(n) ==
  IF n < 10 THEN <<Digits[n + 1]>>
  ELSE Append(Str(n \div 10), Digits[(n % 10) + 1])

(***************************************************************************)
(* posixpath                                                               *)
(***************************************************************************)
DotDot == <<DOT, DOT>>
CurDir == <<DOT>>

\* os.getcwd(): the directory the server was started in
Cwd == <<"/", "w">>

IsAbs(p) == Startswith(p, <<SLASH>>)

\* os.path.join(a, b)
PathJoin(a, b) ==
  IF IsAbs(b) THEN b
  ELSE IF a = <<>> \/ Endswith(a, <<SLASH>>) THEN a \o b
  ELSE a \o <<SLASH>> \o b

\* the loop of posixpath.normpath over the components
RECURSIVE NormComps(_, _, _)
NormComps(comps, acc, initial_slashes) ==
  IF comps = <<>> THEN acc
  ELSE LET comp == Head(comps)
           rest == Tail(comps)
       IN IF comp = <<>> \/ comp = CurDir
          THEN NormComps(rest, acc, initial_slashes)
          ELSE IF \/ comp # DotDot
                  \/ (initial_slashes = 0 /\ acc = <<>>)
                  \/ (acc # <<>> /\ acc[Len(acc)] = DotDot)
               THEN NormComps(rest, Append(acc, comp), initial_slashes)
               ELSE IF acc # <<>>
                    THEN NormComps(rest, SubSeq(acc, 1, Len(acc) - 1),
                                   initial_slashes)
                    ELSE NormComps(rest, acc, initial_slashes)

\* os.path.normpath(path)
Normpath(path) ==
  IF path = <<>> THEN CurDir
  ELSE LET initial_slashes ==
             IF ~IsAbs(path) THEN 0
             ELSE IF Startswith(path, <<SLASH, SLASH>>)
                     /\ ~Startswith(path, <<SLASH, SLASH, SLASH>>)
                  THEN 2 ELSE 1
           joined == JoinSlash(NormComps(SplitSlash(path), <<>>,
                                         initial_slashes))
           out == [i \in 1..initial_slashes |-> SLASH] \o joined
       IN IF out = <<>> THEN CurDir ELSE out

\* os.path.abspath(path)
Abspath(path) ==
  Normpath(IF IsAbs(path) THEN path ELSE PathJoin(Cwd, path))

\* posixpath.split(p): <<head, tail>>
PathSplit(p) ==
  LET i == RFind1(p, SLASH)
      head == SubSeq(p, 1, i)
      tail == SubSeq(p, i + 1, Len(p))
  IN IF head # <<>> /\ head # [k \in 1..Len(head) |-> SLASH]
     THEN <<RStrip(head, SLASH), tail>>
     ELSE <<head, tail>>

\* os.path.basename(p)
Basename(p) == PathSplit(p)[2]

(***************************************************************************)
(* utils/security.py                                                       *)
(***************************************************************************)
uploads == <<"u", "p", "l", "o", "a", "d", "s">>

\* get_user_directory: the path it builds (the makedirs is in GetUserDirectory)
user_dir_of(user_id) == PathJoin(PathJoin(Cwd, uploads), user_id)

AccessDenied == [ok |-> FALSE, path |-> <<>>]

\* validate_path with the '..' deletion left out
validate_path_keep_dotdot(base_path, user_path) ==
  IF user_path = <<>> THEN [ok |-> TRUE, path |-> base_path]
  ELSE LET cleaned == Strip(Replace(user_path, <<SLASH, SLASH>>, <<SLASH>>),
                            SLASH)
           resolved_path == Abspath(PathJoin(base_path, cleaned))
           base_abs_path == Abspath(base_path)
       IN IF ~Startswith(resolved_path, base_abs_path) THEN AccessDenied
          ELSE [ok |-> TRUE, path |-> resolved_path]

\* validate_path(base_path, user_path): ok = FALSE is the 403
validate_path(base_path, user_path) ==
  IF user_path = <<>> THEN [ok |-> TRUE, path |-> base_path]
  ELSE LET cleaned == Strip(Replace(Replace(user_path, DotDot, <<>>),
                                    <<SLASH, SLASH>>, <<SLASH>>), SLASH)
           full_path == PathJoin(base_path, cleaned)
           resolved_path == Abspath(full_path)
           base_abs_path == Abspath(base_path)
       IN IF ~Startswith(resolved_path, base_abs_path) THEN AccessDenied
          ELSE [ok |-> TRUE, path |-> resolved_path]

(***************************************************************************)
(* The filesystem the os.* calls act on.  fs maps each existing canonical  *)
(* absolute path, a sequence of components, to its node.  The program      *)
(* creates no symbolic link, so the kernel's resolution of a path is the   *)
(* walk below.                                                             *)
(***************************************************************************)
DirNode == [kind |-> "dir", size |-> 0]
FileNode(size) == [kind |-> "file", size |-> size]

CwdPath == SelectSeq(SplitSlash(Cwd), LAMBDA c : c # <<>>)

\* the filesystem at startup: main.py's lifespan has made ./uploads
BootFs ==
  [p \in {<<>>} \cup {SubSeq(Append(CwdPath, uploads), 1, k) :
                        k \in 1..(Len(CwdPath) + 1)} |-> DirNode]

IsDirP(f, p) == p \in DOMAIN f /\ f[p].kind = "dir"

\* path resolution: every directory passed through must exist
RECURSIVE Walk(_, _, _)
Walk(f, comps, cur) ==
  IF comps = <<>> THEN [ok |-> TRUE, path |-> cur]
  ELSE IF ~IsDirP(f, cur) THEN [ok |-> FALSE, path |-> cur]
  ELSE LET c == Head(comps)
       IN IF c = <<>> \/ c = CurDir THEN Walk(f, Tail(comps), cur)
          ELSE IF c = DotDot
               THEN Walk(f, Tail(comps),
                         IF cur = <<>> THEN cur
                         ELSE SubSeq(cur, 1, Len(cur) - 1))
               ELSE Walk(f, Tail(comps), Append(cur, c))

Resolve(f, s) ==
  IF s = <<>> THEN [ok |-> FALSE, path |-> <<>>]
  ELSE Walk(f, SplitSlash(s), IF IsAbs(s) THEN <<>> ELSE CwdPath)

\* os.path.exists, os.path.isdir, os.path.isfile
Exists(f, s) == LET r == Resolve(f, s) IN r.ok /\ r.path \in DOMAIN f
IsDir(f, s) == LET r == Resolve(f, s) IN r.ok /\ IsDirP(f, r.path)
IsFile(f, s) ==
  LET r == Resolve(f, s)
  IN r.ok /\ r.path \in DOMAIN f /\ f[r.path].kind = "file"

Put(f, p, node) == [q \in DOMAIN f \cup {p} |-> IF q = p THEN node ELSE f[q]]

IsPrefix(p, q) == Len(p) <= Len(q) /\ SubSeq(q, 1, Len(p)) = p

\* os.mkdir(s): err is "" on success, else the exception raised
Mkdir(f, s) ==
  LET t == IF RStrip(s, SLASH) = <<>> THEN s ELSE RStrip(s, SLASH)
      r == Resolve(f, t)
  IN IF ~r.ok THEN [fs |-> f, err |-> "OSError"]
     ELSE IF r.path \in DOMAIN f THEN [fs |-> f, err |-> "FileExistsError"]
     ELSE [fs |-> Put(f, r.path, DirNode), err |-> ""]

\* os.makedirs(name, exist_ok=True)
MakedirsLeaf(f, name, sub) ==
  LET m == Mkdir(sub.fs, name)
  IN IF m.err = "" \/ ~IsDir(sub.fs, name) THEN m
     ELSE [fs |-> sub.fs, err |-> ""]

RECURSIVE Makedirs(_, _)
Makedirs(f, name) ==
  LET sp == PathSplit(name)
      ht == IF sp[2] = <<>> THEN PathSplit(sp[1]) ELSE sp
      head == ht[1]
      tail == ht[2]
  IN IF head # <<>> /\ tail # <<>> /\ ~Exists(f, head)
     THEN LET sub == Makedirs(f, head)
          IN IF sub.err = "OSError" THEN sub
             ELSE IF tail = CurDir THEN [fs |-> sub.fs, err |-> ""]
             ELSE MakedirsLeaf(f, name, sub)
     ELSE MakedirsLeaf(f, name, [fs |-> f, err |-> ""])

\* shutil.rmtree(s) of a directory: the directory and all below it
Rmtree(f, s) ==
  LET p == Resolve(f, s).path
  IN [q \in {q \in DOMAIN f : ~IsPrefix(p, q)} |-> f[q]]

\* os.remove(s) of a file
Remove(f, s) ==
  LET p == Resolve(f, s).path
  IN [q \in DOMAIN f \ {p} |-> f[q]]

\* os.listdir(s) of a directory: the names in it
Listdir(f, s) ==
  LET p == Resolve(f, s).path
  IN {q[Len(q)] : q \in {q \in DOMAIN f : Len(q) = Len(p) + 1 /\ IsPrefix(p, q)}}

\* open(s, 'wb') and write: creates or truncates a regular file
OpenWrite(f, s, size) ==
  LET r == Resolve(f, s)
  IN IF ~r.ok \/ IsDirP(f, r.path) THEN [fs |-> f, err |-> "OSError"]
     ELSE [fs |-> Put(f, r.path, FileNode(size)), err |-> ""]

\* get_user_directory(user_id): builds the path and makes the directory
get_user_directory(f, user_id) ==
  LET user_dir == user_dir_of(user_id)
      mk == Makedirs(f, user_dir)
  IN [fs |-> mk.fs, err |-> mk.err, dir |-> user_dir]

(***************************************************************************)
(* files/routes.py                                                         *)
(***************************************************************************)
ALLOWED_EXTENSIONS ==
  {<<"t", "x", "t">>, <<"p", "d", "f">>, <<"p", "n", "g">>, <<"j", "p", "g">>,
   <<"j", "p", "e", "g">>, <<"g", "i", "f">>, <<"d", "o", "c">>,
   <<"d", "o", "c", "x">>, <<"p", "p", "t">>, <<"p", "p", "t", "x">>}

MAX_FILE_SIZE == 10 * 1024 * 1024

\* filename.rsplit('.', 1)[1] of a filename that has a '.'
Extension(filename) ==
  SubSeq(filename, RFind1(filename, DOT) + 1, Len(filename))

\* allowed_file with the .lower() left out
allowed_file_case_sensitive(filename) ==
  /\ \E i \in 1..Len(filename) : filename[i] = DOT
  /\ Extension(filename) \in ALLOWED_EXTENSIONS

allowed_file(filename) ==
  /\ \E i \in 1..Len(filename) : filename[i] = DOT
  /\ Lower(Extension(filename)) \in ALLOWED_EXTENSIONS

\* a handler's outcome: the filesystem it leaves and its response
Outcome(f, status, detail) ==
  [fs |-> f, status |-> status, detail |-> detail, items |-> {},
   stored |-> <<>>, size |-> 0, payload |-> <<>>]

\* FileItem of a directory entry (its modification time is not modelled)
FileItem(f, full_path, path, item_name) ==
  LET item_path == PathJoin(full_path, item_name)
      is_dir == IsDir(f, item_path)
  IN [name |-> item_name,
      path |-> IF path # <<>> THEN PathJoin(path, item_name) ELSE item_name,
      type |-> IF is_dir THEN "folder" ELSE "file",
      size |-> IF is_dir THEN -1 ELSE f[Resolve(f, item_path).path].size]

\* the key of items.sort: (x.type == "file", x.name.lower())
KeyLeq(x, y) ==
  \/ (x.type # "file" /\ y.type = "file")
  \/ ((x.type = "file") = (y.type = "file")
      /\ StrLeq(Lower(x.name), Lower(y.name)))

\* the orders items.sort can leave the items in (os.listdir's order is
\* arbitrary, and the sort keeps it among items of equal key)
RECURSIVE SortedItems(_)
SortedItems(items) ==
  IF items = {} THEN {<<>>}
  ELSE UNION {{<<m>> \o r : r \in SortedItems(items \ {m})} :
                m \in {m \in items : \A x \in items : KeyLeq(m, x)}}

\* get_file_tree with the os.makedirs of the listed path left out
get_file_tree_no_makedirs(f, user, path) ==
  LET validated(ud, vp) ==
        IF ~vp.ok \/ ~IsDir(ud.fs, vp.path)
        THEN Outcome(ud.fs, 500, "Failed to read directory")
        ELSE [Outcome(ud.fs, 200, "") EXCEPT
                !.items = {FileItem(ud.fs, vp.path, path, n) :
                             n \in Listdir(ud.fs, vp.path)}]
      located(ud) ==
        IF ud.err # "" THEN Outcome(ud.fs, 500, "Failed to read directory")
        ELSE validated(ud, validate_path(ud.dir, path))
  IN located(get_user_directory(f, user))

\* get_file_tree(path, current_user): items is the set the response lists
get_file_tree(f, user, path) ==
  LET made(mk, full_path) ==
        IF mk.err # "" THEN Outcome(mk.fs, 500, "Failed to read directory")
        ELSE [Outcome(mk.fs, 200, "") EXCEPT
                !.items = {FileItem(mk.fs, full_path, path, n) :
                             n \in Listdir(mk.fs, full_path)}]
      validated(ud, vp) ==
        IF ~vp.ok THEN Outcome(ud.fs, 500, "Failed to read directory")
        ELSE made(Makedirs(ud.fs, vp.path), vp.path)
      located(ud) ==
        IF ud.err # "" THEN Outcome(ud.fs, 500, "Failed to read directory")
        ELSE validated(ud, validate_path(ud.dir, path))
  IN located(get_user_directory(f, user))

\* the stored name of an upload: f"{timestamp}_{file.filename}"
StoredName(timestamp, filename) == Str(timestamp) \o <<"_">> \o filename

\* upload_file(file, path, current_user) at second t
upload_file(f, user, path, filename, size, t) ==
  LET written(wr, stored) ==
        IF wr.err # "" THEN Outcome(wr.fs, 500, "Upload failed")
        ELSE [Outcome(wr.fs, 200, "File uploaded successfully") EXCEPT
                !.stored = stored, !.size = size]
      made(mk, full_path, stored) ==
        IF mk.err # "" THEN Outcome(mk.fs, 500, "Upload failed")
        ELSE written(OpenWrite(mk.fs, PathJoin(full_path, stored), size),
                     stored)
      validated(ud, vp) ==
        IF ~vp.ok THEN Outcome(ud.fs, 403, "Access denied: Invalid path")
        ELSE made(Makedirs(ud.fs, vp.path), vp.path,
                  StoredName(t, filename))
      located(ud) ==
        IF ud.err # "" THEN Outcome(ud.fs, 500, "Upload failed")
        ELSE validated(ud, validate_path(ud.dir, path))
  IN IF filename = <<>> THEN Outcome(f, 400, "No file selected")
     ELSE IF ~allowed_file(filename)
          THEN Outcome(f, 400, "File type not allowed")
     ELSE IF size > MAX_FILE_SIZE
          THEN Outcome(f, 400, "File size exceeds maximum limit (10MB)")
     ELSE located(get_user_directory(f, user))

\* download_file(path, current_user)
download_file(f, user, path) ==
  LET found(g, p) ==
        [Outcome(g, 200, "") EXCEPT
           !.stored = Basename(path), !.size = g[p].size]
      validated(ud, vp) ==
        IF ~vp.ok THEN Outcome(ud.fs, 403, "Access denied: Invalid path")
        ELSE IF ~IsFile(ud.fs, vp.path)
             THEN Outcome(ud.fs, 404, "File not found")
        ELSE found(ud.fs, Resolve(ud.fs, vp.path).path)
      located(ud) ==
        IF ud.err # "" THEN Outcome(ud.fs, 500, "Download failed")
        ELSE validated(ud, validate_path(ud.dir, path))
  IN located(get_user_directory(f, user))

\* delete_file(delete_request, current_user)
delete_file(f, user, path) ==
  LET validated(ud, vp) ==
        IF ~vp.ok THEN Outcome(ud.fs, 403, "Access denied: Invalid path")
        ELSE IF ~Exists(ud.fs, vp.path)
             THEN Outcome(ud.fs, 404, "File or directory not found")
        ELSE IF IsDir(ud.fs, vp.path)
             THEN Outcome(Rmtree(ud.fs, vp.path), 200,
                          "File deleted successfully")
        ELSE Outcome(Remove(ud.fs, vp.path), 200, "File deleted successfully")
      located(ud) ==
        IF ud.err # "" THEN Outcome(ud.fs, 500, "Delete failed")
        ELSE validated(ud, validate_path(ud.dir, path))
  IN located(get_user_directory(f, user))

\* create_folder(name, path, current_user)
create_folder(f, user, name, path) ==
  LET made(mk) ==
        IF mk.err # "" THEN Outcome(mk.fs, 500, "Failed to create folder")
        ELSE Outcome(mk.fs, 200, "Folder created successfully")
      joined(ud, folder_path) ==
        IF Exists(ud.fs, folder_path)
        THEN Outcome(ud.fs, 400, "Folder already exists")
        ELSE made(Makedirs(ud.fs, folder_path))
      validated(ud, vp) ==
        IF ~vp.ok THEN Outcome(ud.fs, 403, "Access denied: Invalid path")
        ELSE joined(ud, PathJoin(vp.path, name))
      located(ud) ==
        IF ud.err # "" THEN Outcome(ud.fs, 500, "Failed to create folder")
        ELSE validated(ud, validate_path(ud.dir, path))
  IN located(get_user_directory(f, user))

(***************************************************************************)
(* middleware/auth.py.  A token is its payload and its HS256 signature;    *)
(* the signature of a payload under a key is modelled as the pair of both, *)
(* so that two signatures agree exactly when key and payload agree.        *)
(* A claims dict is a function from its keys; an absent expires_delta      *)
(* (None) is <<>> and timedelta(seconds=d) is <<d>>.                       *)
(***************************************************************************)
SECRET_KEY == "your-secret-key"
ACCESS_TOKEN_EXPIRE_HOURS == 24

Sign(key, payload) == <<key, payload>>

\* jwt.encode(claims, key, algorithm="HS256")
jwt_encode(claims, key) == [payload |-> claims, sig |-> Sign(key, claims)]

\* the dict d after d.update({k: v})
DictUpdate(d, k, v) ==
  [x \in DOMAIN d \cup {k} |-> IF x = k THEN v ELSE d[x]]

\* create_access_token that forgets the lifetime: expire = utcnow()
create_access_token_no_ttl(data, expires_delta, t) ==
  jwt_encode(DictUpdate(data, "exp", t), SECRET_KEY)

\* AuthMiddleware.create_access_token(data, expires_delta) at second t
create_access_token(data, expires_delta, t) ==
  LET expire ==
        IF expires_delta # <<>> /\ expires_delta[1] # 0
        THEN t + expires_delta[1]
        ELSE t + ACCESS_TOKEN_EXPIRE_HOURS * 3600
      to_encode == DictUpdate(data, "exp", expire)
  IN jwt_encode(to_encode, SECRET_KEY)

NoPayload == [ok |-> FALSE, payload |-> <<>>]

\* verify_token that does not look at exp
verify_token_no_expiry(token, t) ==
  IF token.sig # Sign(SECRET_KEY, token.payload) THEN NoPayload
  ELSE [ok |-> TRUE, payload |-> token.payload]

\* AuthMiddleware.verify_token(token) at second t: ok = FALSE is None.
\* jwt.decode checks the signature, then rejects a token whose exp is
\* earlier than the current second.
verify_token(token, t) ==
  IF token.sig # Sign(SECRET_KEY, token.payload) THEN NoPayload
  ELSE IF "exp" \in DOMAIN token.payload /\ token.payload["exp"] < t
       THEN NoPayload
       ELSE [ok |-> TRUE, payload |-> token.payload]

\* get_current_user(credentials) at second t: ok = FALSE is the 401
get_current_user(token, t) ==
  LET v == verify_token(token, t)
  IN IF ~v.ok THEN NoPayload
     ELSE IF "id" \notin DOMAIN v.payload THEN NoPayload
     ELSE v

(***************************************************************************)
(* The file operations as a state machine: requests of authenticated       *)
(* users (current_user is what get_current_user returned) against the      *)
(* filesystem.  A handler runs from the request to its response; last is   *)
(* that exchange (the request, the filesystem it met, the response) until  *)
(* the client has taken the response, and Idle between two requests.       *)
(***************************************************************************)
\* the requests the model sends: UserU's, and those of a second tenant
UserU == <<"u">>
UserV == <<"v">>
Users == {UserU, UserV}

Root == <<>>
PathA == <<"a">>
PathDots == <<".", ".", "B">>
PathFile == <<"0", "_", "a", ".", "t", "x", "t">>

NameB == <<"B">>
NameX == <<"x">>
NameEscape == <<".", ".", "/", "v", "/", "x">>

FileTxt == <<"a", ".", "t", "x", "t">>
FileUpper == <<"a", ".", "T", "X", "T">>
FileExe == <<"p", "a", "y", "l", "o", "a", "d", ".", "e", "x", "e">>

\* <<user, path>>
ListArgs == ({UserU} \X {Root, PathA, PathFile}) \cup {<<UserV, Root>>}
DownloadArgs == {UserU} \X {PathA, PathFile}
DeleteArgs == ({UserU} \X {Root, PathA, PathDots, PathFile})
              \cup {<<UserV, NameX>>}
\* <<user, path, filename, size>>
UploadArgs ==
  ({UserU} \X {Root} \X {FileTxt, FileUpper, FileExe}
           \X {MAX_FILE_SIZE, MAX_FILE_SIZE + 1})
  \cup {<<UserU, PathFile, FileTxt, MAX_FILE_SIZE>>}
\* <<user, path, name>>
CreateFolderArgs ==
  ({UserU} \X {Root} \X {PathA, NameB, NameEscape})
  \cup {<<UserU, PathA, NameB>>, <<UserV, Root, NameX>>}

NoToken == [payload |-> <<>>, sig |-> <<>>]

\* tok: the session a client holds, with the claims, second and lifetime
\* it was issued for
NoSession == [token |-> NoToken, claims |-> <<>>, issued |-> 0, delta |-> <<>>]

\* the credential of a request that get_current_user has let through
Session == [kind |-> "session", token |-> NoToken]

Request(op, user, path, name, filename, size) ==
  [op |-> op, user |-> user, path |-> path, name |-> name,
   filename |-> filename, size |-> size]

\* what last holds after a request: the request, the state it met, the answer
Answered(req, cred, pre, t, o, tree) ==
  [op |-> req.op, user |-> req.user, path |-> req.path, name |-> req.name,
   filename |-> req.filename, size |-> req.size, cred |-> cred, pre |-> pre,
   t |-> t, status |-> o.status, detail |-> o.detail, tree |-> tree,
   stored |-> o.stored, payload |-> o.payload]

Idle ==
  Answered(Request("idle", <<>>, <<>>, <<>>, <<>>, 0), Session, BootFs, 0,
           Outcome(BootFs, 0, ""), <<>>)

Init ==
  /\ fs = BootFs
  /\ now = 0
  /\ tok = NoSession
  /\ last = Idle

GetFileTree ==
  /\ last = Idle
  /\ \E a \in ListArgs :
       \E o \in {get_file_tree(fs, a[1], a[2])} :
         \E tree \in SortedItems(o.items) :
           /\ fs' = o.fs
           /\ last' = Answered(Request("list", a[1], a[2], <<>>, <<>>, 0),
                               Session, fs, now, o, tree)
  /\ UNCHANGED <<now, tok>>

UploadFile ==
  /\ last = Idle
  /\ \E a \in UploadArgs :
       \E o \in {upload_file(fs, a[1], a[2], a[3], a[4], now)} :
         /\ fs' = o.fs
         /\ last' = Answered(Request("upload", a[1], a[2], <<>>, a[3], a[4]),
                             Session, fs, now, o, <<>>)
  /\ UNCHANGED <<now, tok>>

DownloadFile ==
  /\ last = Idle
  /\ \E a \in DownloadArgs :
       \E o \in {download_file(fs, a[1], a[2])} :
         /\ fs' = o.fs
         /\ last' = Answered(Request("download", a[1], a[2], <<>>, <<>>,
                                     o.size),
                             Session, fs, now, o, <<>>)
  /\ UNCHANGED <<now, tok>>

DeleteFile ==
  /\ last = Idle
  /\ \E a \in DeleteArgs :
       \E o \in {delete_file(fs, a[1], a[2])} :
         /\ fs' = o.fs
         /\ last' = Answered(Request("delete", a[1], a[2], <<>>, <<>>, 0),
                             Session, fs, now, o, <<>>)
  /\ UNCHANGED <<now, tok>>

CreateFolder ==
  /\ last = Idle
  /\ \E a \in CreateFolderArgs :
       \E o \in {create_folder(fs, a[1], a[3], a[2])} :
         /\ fs' = o.fs
         /\ last' = Answered(Request("createFolder", a[1], a[2], a[3], <<>>,
                                     0),
                             Session, fs, now, o, <<>>)
  /\ UNCHANGED <<now, tok>>

\* the client takes the response
Respond ==
  /\ last # Idle
  /\ last' = Idle
  /\ UNCHANGED <<fs, now, tok>>

\* the wall clock passes a second
Tick ==
  /\ last = Idle
  /\ now < MaxNow
  /\ now' = now + 1
  /\ UNCHANGED <<fs, tok, last>>

Next ==
  \/ GetFileTree
  \/ UploadFile
  \/ DownloadFile
  \/ DeleteFile
  \/ CreateFolder
  \/ Respond
  \/ Tick

Spec == Init /\ [][Next]_vars

(***************************************************************************)
(* The protected endpoints behind get_current_user: a client obtains a     *)
(* token, time passes, and requests arrive with the token as issued, with  *)
(* a token signed under another key, or with its exp rewritten.            *)
(***************************************************************************)
ClaimsU == [id |-> UserU, email |-> "u@example.org", provider |-> "google"]
ClaimsV == [id |-> UserV, email |-> "v@example.org", provider |-> "microsoft"]
ClaimsNoId == [email |-> "u@example.org", provider |-> "google"]
ClaimsWithExp == [id |-> UserU, provider |-> "google", exp |-> 0]
ClaimsInputs == {ClaimsU, ClaimsV, ClaimsNoId, ClaimsWithExp}

Deltas == {<<>>, <<1>>, <<2>>}

DefaultLifetime == ACCESS_TOKEN_EXPIRE_HOURS * 3600

\* the seconds at which SpecAuth reads the clock: the first ones after
\* startup, and the same a day later
ClockReadings == {k * DefaultLifetime + j : k \in 0..1, j \in 0..(MaxNow + 1)}

AuthHorizon == DefaultLifetime + MaxNow + 1

\* what a request can present once the session s was issued
Credentials(s) ==
  {[kind |-> "issued", token |-> s.token],
   [kind |-> "forged",
    token |-> [payload |-> s.token.payload,
               sig |-> Sign("attacker-key", s.token.payload)]],
   [kind |-> "tampered",
    token |-> [payload |-> DictUpdate(s.token.payload, "exp",
                                      s.token.payload["exp"] + AuthHorizon),
               sig |-> s.token.sig]]}

Unauthorized(f) == Outcome(f, 401, "Could not validate credentials")

InitAuth ==
  /\ fs = BootFs
  /\ now = 0
  /\ tok = NoSession
  /\ last = Idle

CreateAccessToken ==
  /\ last = Idle
  /\ \E c \in ClaimsInputs, d \in Deltas :
       tok' = [token |-> create_access_token(c, d, now), claims |-> c,
               issued |-> now, delta |-> d]
  /\ UNCHANGED <<fs, now, last>>

VerifyToken ==
  /\ last = Idle
  /\ tok # NoSession
  /\ \E cr \in Credentials(tok) :
       \E v \in {verify_token(cr.token, now)} :
         last' = Answered(Request("verify", <<>>, <<>>, <<>>, <<>>, 0), cr,
                          fs, now,
                          [Outcome(fs, IF v.ok THEN 200 ELSE 401, "")
                             EXCEPT !.payload = v.payload],
                          <<>>)
  /\ UNCHANGED <<fs, now, tok>>

AuthGetFileTree ==
  /\ last = Idle
  /\ tok # NoSession
  /\ \E cr \in Credentials(tok) :
       \E cu \in {get_current_user(cr.token, now)} :
         \E u \in {IF cu.ok THEN cu.payload["id"] ELSE <<>>} :
           \E o \in {IF cu.ok THEN get_file_tree(fs, u, Root)
                     ELSE Unauthorized(fs)} :
             \E tree \in SortedItems(o.items) :
               /\ fs' = o.fs
               /\ last' = Answered(Request("list", u, Root, <<>>, <<>>, 0),
                                   cr, fs, now, o, tree)
  /\ UNCHANGED <<now, tok>>

AuthDownloadFile ==
  /\ last = Idle
  /\ tok # NoSession
  /\ \E cr \in Credentials(tok) :
       \E cu \in {get_current_user(cr.token, now)} :
         \E u \in {IF cu.ok THEN cu.payload["id"] ELSE <<>>} :
           \E o \in {IF cu.ok THEN download_file(fs, u, NameB)
                     ELSE Unauthorized(fs)} :
             /\ fs' = o.fs
             /\ last' = Answered(Request("download", u, NameB, <<>>, <<>>, 0),
                                 cr, fs, now, o, <<>>)
  /\ UNCHANGED <<now, tok>>

AuthDeleteFile ==
  /\ last = Idle
  /\ tok # NoSession
  /\ \E cr \in Credentials(tok) :
       \E cu \in {get_current_user(cr.token, now)} :
         \E u \in {IF cu.ok THEN cu.payload["id"] ELSE <<>>} :
           \E o \in {IF cu.ok THEN delete_file(fs, u, NameB)
                     ELSE Unauthorized(fs)} :
             /\ fs' = o.fs
             /\ last' = Answered(Request("delete", u, NameB, <<>>, <<>>, 0),
                                 cr, fs, now, o, <<>>)
  /\ UNCHANGED <<now, tok>>

AuthCreateFolder ==
  /\ last = Idle
  /\ tok # NoSession
  /\ \E cr \in Credentials(tok) :
       \E cu \in {get_current_user(cr.token, now)} :
         \E u \in {IF cu.ok THEN cu.payload["id"] ELSE <<>>} :
           \E o \in {IF cu.ok THEN create_folder(fs, u, NameB, Root)
                     ELSE Unauthorized(fs)} :
             /\ fs' = o.fs
             /\ last' = Answered(Request("createFolder", u, Root, NameB,
                                         <<>>, 0),
                                 cr, fs, now, o, <<>>)
  /\ UNCHANGED <<now, tok>>

\* time passes until a later reading of the clock
TickAuth ==
  /\ last = Idle
  /\ \E t \in ClockReadings :
       /\ t > now
       /\ now' = t
  /\ UNCHANGED <<fs, tok, last>>

NextAuth ==
  \/ CreateAccessToken
  \/ VerifyToken
  \/ AuthGetFileTree
  \/ AuthDownloadFile
  \/ AuthDeleteFile
  \/ AuthCreateFolder
  \/ Respond
  \/ TickAuth

SpecAuth == InitAuth /\ [][NextAuth]_vars

(***************************************************************************)
(* validate_path on its own: every user path up to MaxLen characters over  *)
(* the characters that make '..', '.', '//', '....//' and the sibling name *)
(* 'u2', against the storage roots of the ids 'u' and 'u2'.                *)
(***************************************************************************)
PathAlphabet == {DOT, SLASH, "u", "2"}

Strings(alphabet, n) == UNION {[1..k -> alphabet] : k \in 0..n}

PathRoots == {user_dir_of(<<"u">>), user_dir_of(<<"u", "2">>)}

InitPath ==
  /\ fs = BootFs
  /\ now = 0
  /\ tok = NoSession
  /\ \E b \in PathRoots, p \in Strings(PathAlphabet, MaxLen) :
       last = [op |-> "input", base |-> b, path |-> p]

ValidatePath ==
  /\ last.op = "input"
  /\ LET r == validate_path(last.base, last.path)
     IN last' = [op |-> "validate_path", base |-> last.base,
                 path |-> last.path, ok |-> r.ok, result |-> r.path]
  /\ UNCHANGED <<fs, now, tok>>

NextPath == ValidatePath

SpecPath == InitPath /\ [][NextPath]_vars

(***************************************************************************)
(* get_user_directory on its own: every pair of distinct identity ids up   *)
(* to MaxIdLen characters, as the provider's claim may deliver them.       *)
(***************************************************************************)
IdAlphabet == {DOT, SLASH, "u", "2"}

Ids == Strings(IdAlphabet, MaxIdLen) \ {<<>>}

InitRoot ==
  /\ fs = BootFs
  /\ now = 0
  /\ tok = NoSession
  /\ \E a \in Ids, b \in Ids :
       /\ a # b
       /\ last = [op |-> "ids", id1 |-> a, id2 |-> b]

GetUserDirectory ==
  /\ last.op = "ids"
  /\ LET r1 == get_user_directory(fs, last.id1)
         r2 == get_user_directory(r1.fs, last.id2)
     IN /\ fs' = r2.fs
        /\ last' = [op |-> "get_user_directory", id1 |-> last.id1,
                    id2 |-> last.id2, dir1 |-> r1.dir, dir2 |-> r2.dir,
                    err1 |-> r1.err, err2 |-> r2.err]
  /\ UNCHANGED <<now, tok>>

NextRoot == GetUserDirectory

SpecRoot == InitRoot /\ [][NextRoot]_vars

(***************************************************************************)
(* Properties of validate_path (SpecPath) and get_user_directory (SpecRoot)*)
(***************************************************************************)
\* p is root or lies below it, compared at a separator boundary
Within(root, p) == p = root \/ Startswith(p, root \o <<SLASH>>)

\* C1: for every storage root R and user path p, validate_path(R, p) returns
\* R or a path that begins with R followed by the separator, or is refused
\* with 403; it never returns a path outside R, nor a sibling such as R + '2'.
C1_Confined ==
  last.op = "validate_path" =>
    \/ ~last.ok
    \/ Within(last.base, last.result)

\* a path made of '..' and the sibling's name is answered inside the root
C1_Witness ==
  /\ last.op = "validate_path"
  /\ last.base = user_dir_of(<<"u">>)
  /\ last.path = <<DOT, DOT, SLASH, "u", "2">>
  /\ last.ok
  /\ last.result = user_dir_of(<<"u">>) \o <<SLASH, "u", "2">>

\* the single base directory <cwd>/uploads
BasePath == Append(CwdPath, uploads)

IsChildOfBase(d) == Len(d) = Len(BasePath) + 1 /\ IsPrefix(BasePath, d)

\* C3: two distinct identity ids get two distinct directories, both direct
\* children of <cwd>/uploads (so neither equals, contains or lies in the
\* other, and none is outside the base directory).
C3_DistinctChildren ==
  last.op = "get_user_directory" =>
    LET d1 == Resolve(fs, last.dir1).path
        d2 == Resolve(fs, last.dir2).path
    IN /\ d1 # d2
       /\ IsChildOfBase(d1)
       /\ IsChildOfBase(d2)

(***************************************************************************)
(* Properties of the session token and of the protected endpoints          *)
(* (SpecAuth).                                                             *)
(***************************************************************************)
\* the lifetime a session was asked for: 24 hours unless overridden
Lifetime(s) == IF s.delta = <<>> THEN 24 * 3600 ELSE s.delta[1]

ExpiresAt(s) == s.issued + Lifetime(s)

VerifiedAsIssued == last.op = "verify" /\ last.cred.kind = "issued"

\* C4 as stated: verify_token(create_access_token(c)) before the expiry
\* returns c unchanged, the same keys with the same values.
C4_RoundTripUnchanged ==
  (VerifiedAsIssued /\ last.t < ExpiresAt(tok)) =>
    /\ last.status = 200
    /\ last.payload = tok.claims

\* C4 as amended: verify_token(create_access_token(c)) before the expiry
\* returns c with the key exp set to the second of expiry (added, or put in
\* place of an exp that c carried); every other key keeps its value.
C4_RoundTripWithExp ==
  (VerifiedAsIssued /\ last.t < ExpiresAt(tok)) =>
    /\ last.status = 200
    /\ DOMAIN last.payload = DOMAIN tok.claims \cup {"exp"}
    /\ last.payload["exp"] = ExpiresAt(tok)
    /\ \A k \in DOMAIN tok.claims \ {"exp"} : last.payload[k] = tok.claims[k]

\* a token verified some time after its issue and before its expiry
C4_Witness ==
  /\ VerifiedAsIssued
  /\ tok.issued < last.t
  /\ last.t < ExpiresAt(tok)
  /\ last.status = 200
  /\ tok.claims = ClaimsU
  /\ last.payload # tok.claims

ProtectedOps == {"list", "download", "delete", "createFolder"}

\* the credential of the request in last is expired, is not signed by the
\* server, or carries no id
InvalidCredential ==
  \/ (last.cred.kind = "issued" /\ last.t > ExpiresAt(tok))
  \/ last.cred.kind \in {"forged", "tampered"}
  \/ "id" \notin DOMAIN last.cred.token.payload

FileOps == {"list", "upload", "download", "delete", "createFolder"}

\* the storage root of a user whose id is one path component
RootPath(u) == Append(BasePath, u)

\* the entry p is not the same in the filesystems f and g
Differs(f, g, p) ==
  \/ (p \in DOMAIN f) # (p \in DOMAIN g)
  \/ (p \in DOMAIN f /\ p \in DOMAIN g /\ f[p] # g[p])

\* f and g hold the same entries, the node r itself left aside (a storage
\* root is made on the first request of its user)
SameBut(f, g, r) ==
  \A p \in (DOMAIN f \cup DOMAIN g) \ {r} : ~Differs(f, g, p)

\* the entry a relative path names under the root of u, read as a POSIX path
Named(u, path) ==
  LET abs == Normpath(JoinSlash(<<user_dir_of(u), path>>))
  IN SelectSeq(SplitSlash(abs), LAMBDA c : c # <<>>)

\* the filesystem f without the entry p and all below it
Without(f, p) == [q \in {q \in DOMAIN f : ~IsPrefix(p, q)} |-> f[q]]

\* C2: whatever arguments a request of user A carries, every entry it
\* creates, overwrites or removes lies inside A's storage root; the tree of
\* any other user is the same after the request as before it.
C2_Isolation ==
  last.op \in FileOps =>
    \A p \in DOMAIN fs \cup DOMAIN last.pre :
      Differs(fs, last.pre, p) => IsPrefix(RootPath(last.user), p)

\* the text after the last '.', lowered, is in the allow-list
HasAllowedExtension(filename) ==
  \E i \in 1..Len(filename) :
    /\ filename[i] = DOT
    /\ \A j \in (i + 1)..Len(filename) : filename[j] # DOT
    /\ Lower(SubSeq(filename, i + 1, Len(filename))) \in ALLOWED_EXTENSIONS

\* C6 as stated: upload accepts a file exactly when its extension is in the
\* allow-list (case-insensitively) and its length is at most MAX_FILE_SIZE;
\* a rejected upload creates no file and no directory.
C6_AcceptedIffTypeAndSize ==
  last.op = "upload" =>
    /\ last.status = 200 <=>
         (HasAllowedExtension(last.filename) /\ last.size <= MAX_FILE_SIZE)
    /\ last.status # 200 => DOMAIN fs = DOMAIN last.pre

\* the directory an upload writes to, and the entry it writes
UploadDir(u, path) == Named(u, path)
UploadTarget(u, path, t, filename) ==
  Append(UploadDir(u, path), Str(t) \o <<"_">> \o filename)

\* the destination of an upload cannot be written in f: the path names or
\* runs through a file, or the stored name is the name of a directory
Blocked(f, u, path, t, filename) ==
  \/ \E k \in 1..Len(UploadDir(u, path)) :
       LET q == SubSeq(UploadDir(u, path), 1, k)
       IN q \in DOMAIN f /\ f[q].kind = "file"
  \/ IsDirP(f, UploadTarget(u, path, t, filename))

\* C6 as amended: an upload (of a non-empty filename) is refused with
\* "File type not allowed" exactly when the text after its last '.', lowered,
\* is not in the allow-list, and otherwise with the size message exactly when
\* it is longer than MAX_FILE_SIZE; both refusals are 400 and create no file
\* and no directory.  An upload that passes both checks (MAX_FILE_SIZE bytes
\* included) succeeds and stores its bytes, unless its destination cannot be
\* written, when it fails with 500 and stores nothing.
C6_TypeAndSizeChecks ==
  last.op = "upload" =>
    LET typeOk == HasAllowedExtension(last.filename)
        sizeOk == last.size <= MAX_FILE_SIZE
        target == UploadTarget(last.user, last.path, last.t, last.filename)
    IN /\ ~typeOk =>
            /\ last.status = 400
            /\ last.detail = "File type not allowed"
            /\ fs = last.pre
       /\ (typeOk /\ ~sizeOk) =>
            /\ last.status = 400
            /\ last.detail = "File size exceeds maximum limit (10MB)"
            /\ fs = last.pre
       /\ (typeOk /\ sizeOk) =>
            IF Blocked(last.pre, last.user, last.path, last.t, last.filename)
            THEN /\ last.status = 500
                 /\ \A p \in DOMAIN fs : fs[p].kind = "file" =>
                      (p \in DOMAIN last.pre /\ last.pre[p] = fs[p])
            ELSE /\ last.status = 200
                 /\ target \in DOMAIN fs
                 /\ fs[target] = FileNode(last.size)

\* an upload of exactly MAX_FILE_SIZE bytes under an upper-case extension
\* is stored
C6_Witness ==
  /\ last.op = "upload"
  /\ last.filename = FileUpper
  /\ last.size = MAX_FILE_SIZE
  /\ last.status = 200
  /\ UploadTarget(last.user, last.path, last.t, last.filename) \in DOMAIN fs

\* folders before files, each group by lowered name ascending
IsOrdered(tree) ==
  \A i, j \in 1..Len(tree) :
    i < j =>
      /\ ~(tree[i].type = "file" /\ tree[j].type = "folder")
      /\ tree[i].type = tree[j].type =>
           StrLeq(Lower(tree[i].name), Lower(tree[j].name))

\* C7: after a successful createFolder(name, parent) a second one fails with
\* 400 and changes nothing, and a list of parent has an entry of that name
\* and kind folder; every listing has its folders before its files, each
\* group by case-insensitive name ascending.
C7_CreateFolderThenList ==
  /\ (last.op = "createFolder" /\ last.status = 200) =>
       LET again == create_folder(fs, last.user, last.name, last.path)
           listing == get_file_tree(fs, last.user, last.path)
       IN /\ again.status = 400
          /\ again.fs = fs
          /\ listing.status = 200
          /\ \E it \in listing.items :
               it.name = last.name /\ it.type = "folder"
  /\ (last.op = "list" /\ last.status = 200) => IsOrdered(last.tree)

\* C8: delete of a path that names no existing entry answers 404 and changes
\* nothing; delete of an existing folder removes it with all below it, delete
\* of an existing file removes it, and every other entry stays as it was.
C8_Delete ==
  last.op = "delete" =>
    LET root == RootPath(last.user)
        target == Named(last.user, last.path)
    IN IF target # root /\ target \notin DOMAIN last.pre
       THEN last.status = 404 /\ SameBut(fs, last.pre, root)
       ELSE last.status = 200 /\ SameBut(fs, Without(last.pre, target), root)

\* C9: an upload never stores under a name that is already taken: two
\* uploads into one directory, also of the same filename within the same
\* second, get different stored names, and the second does not overwrite
\* what the first stored.
C9_StoredNameFresh ==
  (last.op = "upload" /\ last.status = 200) =>
    UploadTarget(last.user, last.path, last.t, last.filename)
      \notin DOMAIN last.pre

WithDirs(f, u, p) ==
  LET missing == {SubSeq(p, 1, k) : k \in Len(RootPath(u))..Len(p)}
                   \ DOMAIN f
  IN [q \in DOMAIN f \cup missing |-> IF q \in DOMAIN f THEN f[q] ELSE DirNode]

====
